---- MODULE Spec2Model ----
(***************************************************************************)
(* A model of up_transport_zenoh/zenohutils.py: the stateless helpers of   *)
(* the uProtocol-over-Zenoh transport (key mapping, priority mapping, the  *)
(* attribute attachment codec and the listener message-type classifier).   *)
(*                                                                         *)
(* The helpers are static methods without state of their own.  The state   *)
(* of the model is what a transport that uses them holds: the last helper  *)
(* call with its arguments and its outcome (call), and the attachment the  *)
(* encoder produced last, which the decoder may be handed (wire).          *)
(***************************************************************************)
EXTENDS Integers, Sequences, FiniteSets, TLC

VARIABLES call, wire

vars == <<call, wire>>

(***************************************************************************)
(* Bounds of the model.                                                    *)
(***************************************************************************)
\* resource ids are drawn from within Radius of every boundary of the table
Radius == 2
\* longest version chunk handed to the decoder
MaxVersionLen == 2
\* longest attributes chunk handed to the decoder
MaxPayloadLen == 2

(***************************************************************************)
(* Values shared by the helpers.                                           *)
(***************************************************************************)
\* Python's None (an absent optional argument)
None == [none |-> TRUE]

\* uprotocol.v1.uri_pb2.UUri: the four fields the helpers read
UUri(a, e, v, r) ==
    [authority_name |-> a, ue_id |-> e, ue_version_major |-> v, resource_id |-> r]

\* UUri(): the message with every field at its default
EmptyUUri == UUri("", 0, 0, 0)

\* UriFactory.WILDCARD_ENTITY_ID (0xFFFF)
WILDCARD_ENTITY_ID == 65535
\* UriFactory.WILDCARD_ENTITY_VERSION (0xFF)
WILDCARD_ENTITY_VERSION == 255
\* UriFactory.WILDCARD_RESOURCE_ID (0xFFFF)
WILDCARD_RESOURCE_ID == 65535

UATTRIBUTE_VERSION == 1

\* a normal return of a helper
Return(v) == [kind |-> "return", value |-> v]

\* an exception leaving a helper: its class, the UCode it carries (if it is a
\* UStatusError) and its message
Raise(t, c, m) == [kind |-> "raise", type |-> t, code |-> c, message |-> m]

\* UStatusError.from_code_message(code, message)
UStatusError(c, m) == Raise("UStatusError", c, m)

(***************************************************************************)
(* get_listener_message_type                                               *)
(***************************************************************************)
\* range(1, 0x7FFF): the upper end is excluded
rpc_range_off_by_one == 1 .. 32767
rpc_range == 1 .. 32766

\* range(0x8000, 0xFFFE): the upper end is excluded
nonrpc_range_off_by_one == 32768 .. 65534
nonrpc_range == 32768 .. 65533

\* MessageFlag: an IntFlag, held here as the set of the flags that are set
MessageFlag == {"PUBLISH", "NOTIFICATION", "REQUEST", "RESPONSE"}

\* "if sink_uuri:" holds for every UUri message and fails for None only
get_listener_message_type(source_uuri, sink_uuri) ==
    LET wildcard_resource_id == WILDCARD_RESOURCE_ID
        src_resource == source_uuri.resource_id
        flag ==
            IF sink_uuri # None
            THEN LET dst_resource == sink_uuri.resource_id
                     notification ==
                         IF \/ (src_resource \in nonrpc_range /\ dst_resource = 0)
                            \/ (src_resource \in nonrpc_range /\ dst_resource = wildcard_resource_id)
                            \/ (src_resource = wildcard_resource_id /\ dst_resource = 0)
                            \/ (src_resource = wildcard_resource_id /\ dst_resource = wildcard_resource_id)
                         THEN {"NOTIFICATION"} ELSE {}
                     request ==
                         IF \/ (src_resource = 0 /\ dst_resource \in rpc_range)
                            \/ (src_resource = 0 /\ dst_resource = wildcard_resource_id)
                            \/ (src_resource = wildcard_resource_id /\ dst_resource \in rpc_range)
                            \/ (src_resource = wildcard_resource_id /\ dst_resource = wildcard_resource_id)
                         THEN {"REQUEST"} ELSE {}
                     response ==
                         IF \/ (src_resource \in rpc_range /\ dst_resource = 0)
                            \/ (src_resource \in rpc_range /\ dst_resource = wildcard_resource_id)
                            \/ (src_resource = wildcard_resource_id /\ dst_resource = 0)
                            \/ (src_resource = wildcard_resource_id /\ dst_resource = wildcard_resource_id)
                         THEN {"RESPONSE"} ELSE {}
                     publish ==
                         IF /\ dst_resource = wildcard_resource_id
                            /\ (src_resource \in nonrpc_range \/ src_resource = wildcard_resource_id)
                         THEN {"PUBLISH"} ELSE {}
                 IN  notification \cup request \cup response \cup publish
            ELSE IF src_resource \in nonrpc_range \/ src_resource = wildcard_resource_id
                 THEN {"PUBLISH"}
                 ELSE {}
    IN  IF flag = {}
        THEN UStatusError("INTERNAL", "Wrong combination of source UUri and sink UUri")
        ELSE Return(flag)

(***************************************************************************)
(* uri_to_zenoh_key, to_zenoh_key_string                                   *)
(***************************************************************************)
\* one digit of the format spec "X"
HexDigit(d) == SubSeq("0123456789ABCDEF", d + 1, d + 1)

\* f"{n:X}": upper-case hexadecimal, no padding, no prefix
RECURSIVE FormatX(_)
FormatX(n) == IF n < 16 THEN HexDigit(n) ELSE FormatX(n \div 16) \o HexDigit(n % 16)

\* the version compared with the entity-id wildcard instead of its own
uri_to_zenoh_key_one_sentinel(authority_name, uri) ==
    LET authority == IF uri.authority_name = "" THEN authority_name ELSE uri.authority_name
        ue_id == IF uri.ue_id = WILDCARD_ENTITY_ID THEN "*" ELSE FormatX(uri.ue_id)
        ue_version_major ==
            IF uri.ue_version_major = WILDCARD_ENTITY_ID
            THEN "*" ELSE FormatX(uri.ue_version_major)
        resource_id ==
            IF uri.resource_id = WILDCARD_RESOURCE_ID THEN "*" ELSE FormatX(uri.resource_id)
    IN  authority \o "/" \o ue_id \o "/" \o ue_version_major \o "/" \o resource_id

uri_to_zenoh_key(authority_name, uri) ==
    LET authority == IF uri.authority_name = "" THEN authority_name ELSE uri.authority_name
        ue_id == IF uri.ue_id = WILDCARD_ENTITY_ID THEN "*" ELSE FormatX(uri.ue_id)
        ue_version_major ==
            IF uri.ue_version_major = WILDCARD_ENTITY_VERSION
            THEN "*" ELSE FormatX(uri.ue_version_major)
        resource_id ==
            IF uri.resource_id = WILDCARD_RESOURCE_ID THEN "*" ELSE FormatX(uri.resource_id)
    IN  authority \o "/" \o ue_id \o "/" \o ue_version_major \o "/" \o resource_id

\* the zero-value destination rendered like any other address
to_zenoh_key_string_no_empty_check(authority_name, src_uri, dst_uri) ==
    LET src == uri_to_zenoh_key(authority_name, src_uri)
        dst == IF dst_uri # None
               THEN uri_to_zenoh_key(authority_name, dst_uri)
               ELSE "{}/{}/{}/{}"
    IN  "up/" \o src \o "/" \o dst

to_zenoh_key_string(authority_name, src_uri, dst_uri) ==
    LET src == uri_to_zenoh_key(authority_name, src_uri)
        dst == IF dst_uri # None /\ dst_uri # EmptyUUri
               THEN uri_to_zenoh_key(authority_name, dst_uri)
               ELSE "{}/{}/{}/{}"
    IN  "up/" \o src \o "/" \o dst

(***************************************************************************)
(* map_zenoh_priority                                                      *)
(***************************************************************************)
UPriority ==
    {"UPRIORITY_UNSPECIFIED", "UPRIORITY_CS0", "UPRIORITY_CS1", "UPRIORITY_CS2",
     "UPRIORITY_CS3", "UPRIORITY_CS4", "UPRIORITY_CS5", "UPRIORITY_CS6"}

\* the dict of map_zenoh_priority
mapping ==
    [p \in UPriority |->
        CASE p = "UPRIORITY_CS0" -> "BACKGROUND"
          [] p = "UPRIORITY_CS1" -> "DATA_LOW"
          [] p = "UPRIORITY_CS2" -> "DATA"
          [] p = "UPRIORITY_CS3" -> "DATA_HIGH"
          [] p = "UPRIORITY_CS4" -> "INTERACTIVE_LOW"
          [] p = "UPRIORITY_CS5" -> "INTERACTIVE_HIGH"
          [] p = "UPRIORITY_CS6" -> "REAL_TIME"
          [] p = "UPRIORITY_UNSPECIFIED" -> "DATA_LOW"]

\* UNSPECIFIED given the fabric's default level instead of DATA_LOW
map_zenoh_priority_unspecified_default(upriority) ==
    IF upriority = "UPRIORITY_UNSPECIFIED"
    THEN Return("DATA")
    ELSE IF upriority \in DOMAIN mapping
         THEN Return(mapping[upriority])
         ELSE Raise("KeyError", "", upriority)

\* mapping[upriority]: a key the dict does not hold raises KeyError
map_zenoh_priority(upriority) ==
    IF upriority \in DOMAIN mapping
    THEN Return(mapping[upriority])
    ELSE Raise("KeyError", "", upriority)

(***************************************************************************)
(* uattributes_to_attachment, attachment_to_uattributes                    *)
(***************************************************************************)
\* UAttributes: two of its scalar fields, type (field 2) and priority
\* (field 5), both enums on the wire (varint)
UAttributes(t, p) == [type |-> t, priority |-> p]

\* (field number << 3) | wire type 0
TagType == 16
TagPriority == 40

\* uattributes.SerializeToString(): proto3 writes a field only when it is not
\* at its default, as its tag byte and its value (a one-byte varint here)
SerializeToString(uattributes) ==
    (IF uattributes.type # 0 THEN <<TagType, uattributes.type>> ELSE <<>>)
    \o (IF uattributes.priority # 0 THEN <<TagPriority, uattributes.priority>> ELSE <<>>)

\* uattributes.ParseFromString(data): reads tag/value pairs into a fresh
\* message (a later value of a field replaces an earlier one); a tag with
\* field number 0 or a tag without its value is a DecodeError
RECURSIVE ParseFields(_, _)
ParseFields(data, msg) ==
    IF Len(data) = 0 THEN Return(msg)
    ELSE IF data[1] \notin {TagType, TagPriority}
         THEN Raise("DecodeError", "", "Error parsing message")
    ELSE IF Len(data) < 2
         THEN Raise("DecodeError", "", "Error parsing message")
    ELSE ParseFields(SubSeq(data, 3, Len(data)),
                     IF data[1] = TagType
                     THEN [msg EXCEPT !.type = data[2]]
                     ELSE [msg EXCEPT !.priority = data[2]])

ParseFromString(data) == ParseFields(data, UAttributes(0, 0))

\* n.to_bytes(1, byteorder='little'): one byte
to_bytes(n) == <<n % 256>>

\* int.from_bytes(b, byteorder='big'); the empty byte string gives 0
RECURSIVE from_bytes(_)
from_bytes(b) ==
    IF Len(b) = 0 THEN 0
    ELSE 256 * from_bytes(SubSeq(b, 1, Len(b) - 1)) + b[Len(b)]

\* f"{n}": the decimal numeral
RECURSIVE FormatD(_)
FormatD(n) ==
    IF n < 10 THEN SubSeq("0123456789", n + 1, n + 1)
    ELSE FormatD(n \div 10) \o SubSeq("0123456789", (n % 10) + 1, (n % 10) + 1)

uattributes_to_attachment(uattributes) ==
    LET version_bytes == to_bytes(UATTRIBUTE_VERSION)
        uattributes_bytes == SerializeToString(uattributes)
        attachment_bytes == <<version_bytes, uattributes_bytes>>
    IN  attachment_bytes

\* a ZBytes: the chunk list it deserializes to, or one that does not
\* deserialize to a list at all
ZBytes(chunks) == [readable |-> TRUE, chunks |-> chunks]
UnreadableZBytes == [readable |-> FALSE, chunks |-> <<>>]

\* the body of the try block of attachment_to_uattributes
attachment_to_uattributes_try(attachment) ==
    IF ~attachment.readable
    THEN Raise("ZError", "", "Could not deserialize ZBytes")
    ELSE
    LET attachment_bytes == attachment.chunks IN
    IF Len(attachment_bytes) < 1
    THEN UStatusError("INVALID_ARGUMENT", "Unable to get the UAttributes version")
    ELSE
    LET version == from_bytes(attachment_bytes[1]) IN
    IF version # UATTRIBUTE_VERSION
    THEN UStatusError("INVALID_ARGUMENT",
                      "UAttributes version is " \o FormatD(version)
                      \o " (should be " \o FormatD(UATTRIBUTE_VERSION) \o ")")
    ELSE
    IF Len(attachment_bytes) < 2
    THEN Raise("IndexError", "", "list index out of range")
    ELSE
    LET uattributes_data == attachment_bytes[2] IN
    IF Len(uattributes_data) = 0
    THEN UStatusError("INVALID_ARGUMENT", "Unable to get the UAttributes")
    ELSE ParseFromString(uattributes_data)

\* the except clause left out: whatever the body raises reaches the caller
attachment_to_uattributes_no_except(attachment) ==
    attachment_to_uattributes_try(attachment)

\* try: ... except Exception as e: every exception of the body, the
\* UStatusErrors it raised itself included, is replaced by a new
\* INVALID_ARGUMENT error whose message embeds str(e)
\* (str(e) is taken to be the message the exception was built with)
attachment_to_uattributes(attachment) ==
    LET outcome == attachment_to_uattributes_try(attachment) IN
    IF outcome.kind = "raise"
    THEN UStatusError("INVALID_ARGUMENT",
                      "Failed to convert Attachment to UAttributes: " \o outcome.message)
    ELSE outcome

(***************************************************************************)
(* The inputs of the model.                                                *)
(***************************************************************************)
\* the resource ids at which the classification table changes, and the two
\* ids of the documented scenarios (0x42, 0x8001 lies within the radius)
RidBoundaries == {0, 32767, 32768, 65534, 65535}

ResourceIds ==
    {66} \cup {r \in 0 .. 65535 + Radius :
                  \E b \in RidBoundaries : r >= b - Radius /\ r <= b + Radius}

\* the addresses handed to the classifier: only resource_id is read
ClassifierUris == {UUri("", 18, 1, r) : r \in ResourceIds}

\* the addresses handed to the key mapper: every field at zero, at a plain
\* value and at each wildcard sentinel (0xFF and 0xFFFF), its own or not
AuthorityNames == {"", "vehicle"}
DefaultAuthorities == {"local", "host"}
KeyUris ==
    {UUri(a, e, v, r) : a \in AuthorityNames, e \in {0, 18, 255, 65535},
                        v \in {0, 1, 255, 65535}, r \in {0, 255, 32769, 65535}}
KeySources == {UUri(a, 18, v, 32769) : a \in AuthorityNames, v \in {1, 255}}

\* the priorities handed to the mapper: the eight of the enumeration and one
\* value outside it
PriorityInputs == UPriority \cup {"UPRIORITY_UNDEFINED"}

\* the attributes handed to the encoder; the first is the default message
AttributeValues == {UAttributes(t, p) : t \in 0 .. 2, p \in 0 .. 2}

\* byte strings over B of length at most n
BytesUpTo(B, n) == UNION {[1 .. k -> B] : k \in 0 .. n}

\* the attachments handed to the decoder by a peer: no chunk, a version chunk
\* alone, a version chunk and an attributes chunk, the same followed by a
\* third chunk, and one that is no chunk list
VersionChunks == BytesUpTo({0, 1, 2}, MaxVersionLen)
PayloadChunks == BytesUpTo({0, 1, TagType, TagPriority}, MaxPayloadLen)
ForeignAttachments ==
    {ZBytes(<<>>), UnreadableZBytes}
    \cup {ZBytes(<<v>>) : v \in VersionChunks}
    \cup {ZBytes(<<v, d>>) : v \in VersionChunks, d \in PayloadChunks}
    \cup {ZBytes(<<v, d, <<0>>>>) : v \in VersionChunks, d \in PayloadChunks}

(***************************************************************************)
(* The transport: it starts having called nothing.  It calls one helper at *)
(* a time with any arguments (call holds the call and its outcome), takes  *)
(* the outcome (Finish) and goes on to the next call.  The attachment the   *)
(* encoder returned stays on the wire, with the attributes it was made     *)
(* from, until the decoder is handed it (Receive).                         *)
(***************************************************************************)
Idle == [op |-> "none", args |-> <<>>, result |-> Return(None), sent |-> None]

Init ==
    /\ call = Idle
    /\ wire = None

Classify ==
    /\ call.op = "none"
    /\ \E src \in ClassifierUris, sink \in ClassifierUris \cup {None} :
           call' = [op |-> "get_listener_message_type",
                    args |-> <<src, sink>>,
                    result |-> get_listener_message_type(src, sink),
                    sent |-> None]
    /\ UNCHANGED wire

UriToKey ==
    /\ call.op = "none"
    /\ \E authority_name \in DefaultAuthorities, uri \in KeyUris :
           call' = [op |-> "uri_to_zenoh_key",
                    args |-> <<authority_name, uri>>,
                    result |-> Return(uri_to_zenoh_key(authority_name, uri)),
                    sent |-> None]
    /\ UNCHANGED wire

ToKeyString ==
    /\ call.op = "none"
    /\ \E authority_name \in DefaultAuthorities, src_uri \in KeySources,
          dst_uri \in KeyUris \cup {None} :
           call' = [op |-> "to_zenoh_key_string",
                    args |-> <<authority_name, src_uri, dst_uri>>,
                    result |-> Return(to_zenoh_key_string(authority_name, src_uri, dst_uri)),
                    sent |-> None]
    /\ UNCHANGED wire

MapPriority ==
    /\ call.op = "none"
    /\ \E upriority \in PriorityInputs :
           call' = [op |-> "map_zenoh_priority",
                    args |-> <<upriority>>,
                    result |-> map_zenoh_priority(upriority),
                    sent |-> None]
    /\ UNCHANGED wire

Encode ==
    /\ call.op = "none"
    /\ \E uattributes \in AttributeValues :
           /\ call' = [op |-> "uattributes_to_attachment",
                       args |-> <<uattributes>>,
                       result |-> Return(uattributes_to_attachment(uattributes)),
                       sent |-> None]
           /\ wire' = [attrs |-> uattributes,
                       attachment |-> ZBytes(uattributes_to_attachment(uattributes))]

\* the decoder is handed the attachment on the wire
Receive ==
    /\ call.op = "none"
    /\ wire # None
    /\ call' = [op |-> "attachment_to_uattributes",
                args |-> <<wire.attachment>>,
                result |-> attachment_to_uattributes(wire.attachment),
                sent |-> wire.attrs]
    /\ wire' = None

\* the decoder is handed an attachment a peer made
Decode ==
    /\ call.op = "none"
    /\ \E attachment \in ForeignAttachments :
           call' = [op |-> "attachment_to_uattributes",
                    args |-> <<attachment>>,
                    result |-> attachment_to_uattributes(attachment),
                    sent |-> None]
    /\ UNCHANGED wire

Finish ==
    /\ call.op # "none"
    /\ call' = Idle
    /\ UNCHANGED wire

Next ==
    \/ Classify
    \/ UriToKey
    \/ ToKeyString
    \/ MapPriority
    \/ Encode
    \/ Receive
    \/ Decode
    \/ Finish

Spec == Init /\ [][Next]_vars

(***************************************************************************)
(* Claims about get_listener_message_type.                                 *)
(***************************************************************************)
IsClassify == call.op = "get_listener_message_type"
ClassifySrc == call.args[1].resource_id
ClassifyHasSink == call.args[2] # None
ClassifySink == call.args[2].resource_id

\* the ranges and the rules as the design states them
InRPC(r) == 1 <= r /\ r <= 32766
InNONRPC(r) == 32768 <= r /\ r <= 65533
IsWild(r) == r = 65535

RuleKinds(Rs, hasDst, Rd) ==
    IF ~hasDst
    THEN {k \in {"PUBLISH"} : InNONRPC(Rs) \/ IsWild(Rs)}
    ELSE {k \in MessageFlag :
            \/ k = "NOTIFICATION" /\ (InNONRPC(Rs) \/ IsWild(Rs)) /\ (Rd = 0 \/ IsWild(Rd))
            \/ k = "REQUEST" /\ (Rs = 0 \/ IsWild(Rs)) /\ (InRPC(Rd) \/ IsWild(Rd))
            \/ k = "RESPONSE" /\ (InRPC(Rs) \/ IsWild(Rs)) /\ (Rd = 0 \/ IsWild(Rd))
            \/ k = "PUBLISH" /\ IsWild(Rd) /\ (InNONRPC(Rs) \/ IsWild(Rs))}

C2_NoPublishWithSink ==
    (IsClassify /\ ClassifyHasSink /\ call.result.kind = "return"
        /\ (ClassifySink = 0 \/ (0 < ClassifySink /\ ClassifySink < 32768)
               \/ ClassifySink = 65535))
    => /\ "PUBLISH" \notin call.result.value
       /\ (ClassifySrc = 65535 /\ ClassifySink = 65535)
            => call.result.value = {"NOTIFICATION", "REQUEST", "RESPONSE"}
       /\ (32768 <= ClassifySrc /\ ClassifySrc < 65535 /\ ClassifySink = 65535)
            => call.result.value = {"NOTIFICATION"}

\* C3 (as the docstring table states it): for every r with 0 < r < 0x8000,
\* source r with sink 0 is exactly RESPONSE and source 0 with sink r is
\* exactly REQUEST; neither fails.
C3_OpenIntervalIsRpc ==
    (IsClassify /\ ClassifyHasSink) =>
        /\ (0 < ClassifySrc /\ ClassifySrc < 32768 /\ ClassifySink = 0)
             => call.result = Return({"RESPONSE"})
        /\ (ClassifySrc = 0 /\ 0 < ClassifySink /\ ClassifySink < 32768)
             => call.result = Return({"REQUEST"})

IsUriToKey == call.op = "uri_to_zenoh_key"
IsToKeyString == call.op = "to_zenoh_key_string"

\* a key string cut at its '/' characters
RECURSIVE SplitSlash(_, _)
SplitSlash(s, from) ==
    IF \A i \in from .. Len(s) : SubSeq(s, i, i) # "/"
    THEN <<SubSeq(s, from, Len(s))>>
    ELSE LET i == CHOOSE j \in from .. Len(s) :
                      /\ SubSeq(s, j, j) = "/"
                      /\ \A k \in from .. j - 1 : SubSeq(s, k, k) # "/"
         IN  <<SubSeq(s, from, i - 1)>> \o SplitSlash(s, i + 1)

UpperHexDigits == {HexDigit(d) : d \in 0 .. 15}
DigitValue(c) == CHOOSE d \in 0 .. 15 : HexDigit(d) = c

RECURSIVE HexValue(_)
HexValue(seg) ==
    IF Len(seg) = 0 THEN 0
    ELSE 16 * HexValue(SubSeq(seg, 1, Len(seg) - 1))
         + DigitValue(SubSeq(seg, Len(seg), Len(seg)))

\* seg is the upper-case, unpadded hexadecimal numeral of v
IsUpperHexOf(seg, v) ==
    /\ Len(seg) >= 1
    /\ \A i \in 1 .. Len(seg) : SubSeq(seg, i, i) \in UpperHexDigits
    /\ Len(seg) > 1 => SubSeq(seg, 1, 1) # "0"
    /\ HexValue(seg) = v

SegmentOk(seg, v, sentinel) ==
    /\ seg = "*" <=> v = sentinel
    /\ v # sentinel => IsUpperHexOf(seg, v)

\* C6: uri_to_zenoh_key renders authority/entity_id/version/resource_id
\* joined by '/'; the authority is the address's own if non-empty and the
\* default otherwise; each numeric segment is '*' exactly when the field is
\* its own wildcard sentinel (0xFFFF, 0xFF, 0xFFFF) and otherwise the field's
\* upper-case unpadded hexadecimal numeral.
C6_KeySegments ==
    IsUriToKey =>
        LET authority_name == call.args[1]
            uri == call.args[2]
            segs == SplitSlash(call.result.value, 1)
        IN  /\ call.result.kind = "return"
            /\ Len(segs) = 4
            /\ segs[1] = IF uri.authority_name # "" THEN uri.authority_name
                                                    ELSE authority_name
            /\ SegmentOk(segs[2], uri.ue_id, 65535)
            /\ SegmentOk(segs[3], uri.ue_version_major, 255)
            /\ SegmentOk(segs[4], uri.resource_id, 65535)

\* C6 witness: an address whose version holds the entity-id sentinel 0xFFFF
\* (not its own) and whose resource id is the wildcard was rendered with the
\* default authority.
C6_Witness ==
    /\ IsUriToKey
    /\ call.args[2] = UUri("", 18, 65535, 65535)
    /\ call.result.value = call.args[1] \o "/12/FFFF/*"

\* C5 (as stated): with the destination absent or the zero-value address the
\* key is "up/" + source key + "/*/*/*/*"; with any other destination it is
\* "up/" + source key + "/" + destination key.
C5_DefaultDestinationIsWildcards ==
    IsToKeyString =>
        LET authority_name == call.args[1]
            src == call.args[2]
            dst == call.args[3]
        IN  call.result.value =
                "up/" \o uri_to_zenoh_key(authority_name, src) \o "/"
                \o (IF dst = None \/ dst = EmptyUUri
                    THEN "*/*/*/*"
                    ELSE uri_to_zenoh_key(authority_name, dst))

\* C5 (amended): with the destination absent or the zero-value address the
\* destination part of the key is the literal "{}/{}/{}/{}" (four empty
\* placeholders, not four wildcards); with any other destination it is
\* "up/" + source key + "/" + destination key.
C5_DefaultDestinationIsPlaceholders ==
    IsToKeyString =>
        LET authority_name == call.args[1]
            src == call.args[2]
            dst == call.args[3]
        IN  call.result.value =
                "up/" \o uri_to_zenoh_key(authority_name, src) \o "/"
                \o (IF dst = None \/ dst = EmptyUUri
                    THEN "{}/{}/{}/{}"
                    ELSE uri_to_zenoh_key(authority_name, dst))

\* C5 witness: the zero-value destination was given and the key ends in the
\* four placeholders.
C5_Witness ==
    /\ IsToKeyString
    /\ call.args[3] = EmptyUUri
    /\ call.args[2] = UUri("", 18, 255, 32769)
    /\ call.result.value = "up/" \o call.args[1] \o "/12/*/8001/{}/{}/{}/{}"

(***************************************************************************)
(* Claims about the attachment codec.                                      *)
(***************************************************************************)
IsDecode == call.op = "attachment_to_uattributes"
DecodedChunks == call.args[1].chunks

IsInvalidArgument(outcome) ==
    /\ outcome.kind = "raise"
    /\ outcome.type = "UStatusError"
    /\ outcome.code = "INVALID_ARGUMENT"

\* C7 (as stated): decoding the attachment the encoder made from any
\* attributes value, the version chunk untouched, succeeds and returns an
\* equal attributes value.
C7_RoundTrip ==
    (IsDecode /\ call.sent # None) => call.result = Return(call.sent)

\* what the attachment handed to the decoder lacks, if anything
NoChunk == Len(DecodedChunks) = 0
WrongVersion == ~NoChunk /\ from_bytes(DecodedChunks[1]) # 1
NoAttributes ==
    /\ ~NoChunk
    /\ ~WrongVersion
    /\ (Len(DecodedChunks) < 2 \/ DecodedChunks[2] = <<>>)
Unparsable ==
    /\ ~NoChunk
    /\ ~WrongVersion
    /\ ~NoAttributes
    /\ ParseFromString(DecodedChunks[2]).kind = "raise"

\* C8: attachment_to_uattributes raises an INVALID_ARGUMENT error and returns
\* nothing when the chunk list is empty, the first chunk's value is not 1,
\* the second chunk is absent or empty, or the second chunk does not parse;
\* and whatever it raises is a UStatusError with the INVALID_ARGUMENT code.
C8_DecodeFailuresAreInvalidArgument ==
    IsDecode =>
        /\ (~call.args[1].readable \/ NoChunk \/ WrongVersion \/ NoAttributes \/ Unparsable)
             => IsInvalidArgument(call.result)
        /\ call.result.kind = "raise" => IsInvalidArgument(call.result)

\* C8 witness: a version chunk alone was decoded (the second chunk is absent)
\* and the call failed.
C8_Witness ==
    /\ IsDecode
    /\ call.args[1].readable
    /\ DecodedChunks = <<(<<1>>)>>
    /\ call.result.kind = "raise"

\* C9 (as stated): the error raised where a missing version, an unsupported
\* version or missing attributes is detected reaches the caller with exactly
\* the code and message it was built with.
C9_DetectedErrorsUnmodified ==
    (IsDecode /\ call.args[1].readable) =>
        /\ NoChunk => call.result =
               UStatusError("INVALID_ARGUMENT", "Unable to get the UAttributes version")
        /\ (WrongVersion /\ from_bytes(DecodedChunks[1]) = 2) => call.result =
               UStatusError("INVALID_ARGUMENT", "UAttributes version is 2 (should be 1)")
        /\ (~NoChunk /\ ~WrongVersion /\ Len(DecodedChunks) >= 2 /\ DecodedChunks[2] = <<>>)
             => call.result =
               UStatusError("INVALID_ARGUMENT", "Unable to get the UAttributes")

(***************************************************************************)
(* Claims about the priority mapper.                                       *)
(***************************************************************************)
IsMapPriority == call.op = "map_zenoh_priority"

PriorityTable(p) ==
    CASE p = "UPRIORITY_CS0" -> "BACKGROUND"
      [] p = "UPRIORITY_CS1" -> "DATA_LOW"
      [] p = "UPRIORITY_CS2" -> "DATA"
      [] p = "UPRIORITY_CS3" -> "DATA_HIGH"
      [] p = "UPRIORITY_CS4" -> "INTERACTIVE_LOW"
      [] p = "UPRIORITY_CS5" -> "INTERACTIVE_HIGH"
      [] p = "UPRIORITY_CS6" -> "REAL_TIME"
      [] p = "UPRIORITY_UNSPECIFIED" -> "DATA_LOW"

\* C10: map_zenoh_priority returns, for each of the eight defined priorities
\* and without an error, the level of the fixed table (CS0 -> BACKGROUND, ...,
\* CS6 -> REAL_TIME, UNSPECIFIED -> DATA_LOW).
C10_PriorityTable ==
    (IsMapPriority /\ call.args[1] \in UPriority)
    => call.result = Return(PriorityTable(call.args[1]))

\* C10 witness: UNSPECIFIED was mapped, to DATA_LOW.
C10_Witness ==
    /\ IsMapPriority
    /\ call.args[1] = "UPRIORITY_UNSPECIFIED"
    /\ call.result = Return("DATA_LOW")

====
